---- MODULE Spec2Model ----
(***************************************************************************)
(* A model of starship's segment composition engine (src/module.rs) and of *)
(* the kubernetes detector (src/modules/kubernetes.rs).                    *)
(*                                                                         *)
(* Strings are sequences of one-character strings; the escape character    *)
(* U+001B is written "ESC".  An Option<T> is a sequence of length 0 (None) *)
(* or 1 (Some).                                                            *)
(***************************************************************************)
EXTENDS Integers, Sequences, FiniteSets, TLC

VARIABLES pc, segments, via, shell, width, iter, ansi_strings, result, empty,
          kpc, kenv, kret

vars == <<pc, segments, via, shell, width, iter, ansi_strings, result, empty,
          kpc, kenv, kret>>

mvars == <<pc, segments, via, shell, width, iter, ansi_strings, result, empty>>

kvars == <<kpc, kenv, kret>>

(***************************************************************************)
(* Bounds of the model.                                                    *)
(***************************************************************************)
MaxSegs == 4

MaxWidth == 5

MaxEntries == 2

MaxAliases == 2

MaxCtxLen == 2

None == <<>>

Some(x) == <<x>>

\* The sequences over S of length at most n.
SeqUpTo(S, n) == UNION {[1..k -> S] : k \in 0..n}

RECURSIVE Concat(_)
\* The concatenation of a sequence of sequences.
Concat(ss) == IF ss = <<>> THEN <<>> ELSE Head(ss) \o Concat(Tail(ss))

RECURSIVE Repeat(_, _)
\* n copies of the string s, one after the other.
Repeat(s, n) == IF n <= 0 THEN <<>> ELSE s \o Repeat(s, n - 1)

(***************************************************************************)
(* Segments (crate::segment).  A Styled segment has a text and an optional *)
(* style, a Fill segment a symbol and an optional style.                   *)
(***************************************************************************)
ESC == "ESC"

LINE_TERMINATOR_STRING == <<"\n">>

Styled(text, style) == [kind |-> "Text", value |-> text, style |-> style]

Fill(symbol, style) == [kind |-> "Fill", value |-> symbol, style |-> style]

LineTerm == [kind |-> "LineTerm", value |-> LINE_TERMINATOR_STRING, style |-> None]

\* The segments the model populates a module with: an empty text, a single
\* space, a styled text that holds the escape terminator 'm' and the zsh
\* marker "%{", a fill and a line terminator.
SegmentValues ==
    { Styled(<<>>, None),
      Styled(<<" ">>, None),
      Styled(<<"m", "%", "{">>, Some("bold")),
      Fill(<<"-">>, Some("dim")),
      LineTerm }

\* Segment::value
value(segment) == segment.value

\* Segment::width_graphemes: the display width; every character of the model
\* is one column wide, a Fill and a LineTerm occupy none before resolution.
width_graphemes(segment) ==
    IF segment.kind = "Text" THEN Len(segment.value) ELSE 0

\* An ANSIString: a text painted in an optional style.
ANSIString(text, style) == [text |-> text, style |-> style]

StyleCode(style) == IF style = "bold" THEN "1" ELSE "2"

\* ANSIString::to_string: the text between the style's escape codes.
to_string(ansi) ==
    IF ansi.style = None
    THEN ansi.text
    ELSE <<ESC, "[", StyleCode(ansi.style[1]), "m">> \o ansi.text
         \o <<ESC, "[", "0", "m">>

\* Segment::ansi_string for a Text or LineTerm segment.
ansi_string(segment) == ANSIString(segment.value, segment.style)

\* FillSegment::ansi_string: the symbol repeated fill_size times, and no
\* character for None.
fill_ansi_string(fs, fill_size) ==
    ANSIString(IF fill_size = None THEN <<>> ELSE Repeat(fs.value, fill_size[1]),
               fs.style)

(***************************************************************************)
(* Module::is_empty: Iterator::all over the segments, which stops at the   *)
(* first segment whose value is not empty.                                 *)
(***************************************************************************)
IsSpace(c) == c \in {" ", "\n", "\t"}

RECURSIVE trim_start(_)
trim_start(s) ==
    IF s # <<>> /\ IsSpace(Head(s)) THEN trim_start(Tail(s)) ELSE s

RECURSIVE is_empty_trimmed(_)
\* is_empty as it would be with the values trimmed first.
is_empty_trimmed(segs) ==
    IF segs = <<>> THEN TRUE
    ELSE IF trim_start(value(Head(segs))) # <<>> THEN FALSE
    ELSE is_empty_trimmed(Tail(segs))

RECURSIVE is_empty(_)
is_empty(segs) ==
    IF segs = <<>> THEN TRUE
    ELSE IF Len(value(Head(segs))) # 0 THEN FALSE
    ELSE is_empty(Tail(segs))

(***************************************************************************)
(* ansi_line: one line of the module.                                      *)
(***************************************************************************)
\* The state of the for loop of ansi_line: the locals used, current and
\* chunks, and the position of the iterator.
LineStart(pos) == [used |-> 0, current |-> <<>>, chunks |-> <<>>, next |-> pos]

\* One iteration of the loop body on segment, before the LineTerm test.
line_body(st, segment) ==
    IF segment.kind = "Fill"
    THEN [st EXCEPT !.chunks = Append(@, [strs |-> st.current, fill |-> segment]),
                    !.current = <<>>,
                    !.next = @ + 1]
    ELSE [st EXCEPT !.used = @ + width_graphemes(segment),
                    !.current = Append(@, ansi_string(segment)),
                    !.next = @ + 1]

RECURSIVE line_loop_nobreak(_, _)
\* The loop without its break at a LineTerm.
line_loop_nobreak(segs, st) ==
    IF st.next > Len(segs) THEN st
    ELSE line_loop_nobreak(segs, line_body(st, segs[st.next]))

RECURSIVE line_loop(_, _)
\* for segment in segments { ...; if let Segment::LineTerm = segment { break } }
line_loop(segs, st) ==
    IF st.next > Len(segs) THEN st
    ELSE LET segment == segs[st.next]
             st1 == line_body(st, segment)
         IN IF segment.kind = "LineTerm" THEN st1 ELSE line_loop(segs, st1)

\* fill_size with the remainder rounded up instead of dropped.
fill_size_ceil(term_width, used, n) ==
    IF term_width = None THEN None
    ELSE IF term_width[1] > used
         THEN Some((term_width[1] - used + n - 1) \div n)
         ELSE None

\* fill_size without the test tw > used: the subtraction wraps around (here
\* in 4 bits) when tw <= used.
fill_size_wrapping(term_width, used, n) ==
    IF term_width = None THEN None
    ELSE Some(((term_width[1] - used) % 16) \div n)

\* fill_size with the remaining width handed whole to every fill instead of
\* divided by the number of chunks.
fill_size_undivided(term_width, used, n) ==
    IF term_width = None THEN None
    ELSE IF term_width[1] > used
         THEN Some(term_width[1] - used)
         ELSE None

\* term_width.map(|tw| if tw > used { Some(tw - used) } else { None })
\*           .flatten().map(|remaining| remaining / chunks.len())
fill_size(term_width, used, n) ==
    IF term_width = None THEN None
    ELSE IF term_width[1] > used
         THEN Some((term_width[1] - used) \div n)
         ELSE None

\* The chunks, each followed by its fill, before the trailing strings.
chunks_then_current(st, size) ==
    Concat([i \in 1..Len(st.chunks) |->
               Append(st.chunks[i].strs,
                      fill_ansi_string(st.chunks[i].fill, size))])
    \o st.current

\* The trailing strings put before the chunks.
line_output_reordered(st, term_width) ==
    IF st.chunks = <<>> THEN st.current
    ELSE LET size == fill_size(term_width, st.used, Len(st.chunks))
         IN st.current
            \o Concat([i \in 1..Len(st.chunks) |->
                          Append(st.chunks[i].strs,
                                 fill_ansi_string(st.chunks[i].fill, size))])

\* if chunks.is_empty() { current } else { chunks.flat_map(..).chain(current) }
line_output(st, term_width) ==
    IF st.chunks = <<>> THEN st.current
    ELSE chunks_then_current(st, fill_size(term_width, st.used, Len(st.chunks)))

\* ansi_line on the iterator at position pos: the strings of the line and the
\* position the iterator is left at.
ansi_line(segs, pos, term_width) ==
    LET st == line_loop(segs, LineStart(pos))
    IN [out |-> line_output(st, term_width), next |-> st.next]

(***************************************************************************)
(* The shell escape wrapper (crate::utils::wrap_colorseq_for_shell).       *)
(***************************************************************************)
Shells == {"Bash", "Zsh", "Tcsh", "Fish", "Unknown"}

WrappedShells == {"Bash", "Zsh", "Tcsh"}

\* The prompt-escape markers of the shell: \[ \] for bash, %{ %} for zsh
\* and tcsh.
EscapeBegin(sh) == IF sh = "Bash" THEN <<"\\", "[">> ELSE <<"%", "{">>

EscapeEnd(sh) == IF sh = "Bash" THEN <<"\\", "]">> ELSE <<"%", "}">>

RECURSIVE wrap_every_end(_, _, _)
\* The wrapper without its escaped flag at the end of a code: every 'm' is
\* followed by the end marker.
wrap_every_end(s, sh, escaped) ==
    IF s = <<>> THEN <<>>
    ELSE IF Head(s) = ESC /\ ~escaped
         THEN EscapeBegin(sh) \o <<ESC>> \o wrap_every_end(Tail(s), sh, TRUE)
    ELSE IF Head(s) = "m"
         THEN <<"m">> \o EscapeEnd(sh) \o wrap_every_end(Tail(s), sh, FALSE)
    ELSE <<Head(s)>> \o wrap_every_end(Tail(s), sh, escaped)

RECURSIVE wrap_seq(_, _, _)
\* The begin marker before the ESC that opens an escape code, the end marker
\* after the 'm' that closes it, every character kept.
wrap_seq(s, sh, escaped) ==
    IF s = <<>> THEN <<>>
    ELSE IF Head(s) = ESC /\ ~escaped
         THEN EscapeBegin(sh) \o <<ESC>> \o wrap_seq(Tail(s), sh, TRUE)
    ELSE IF Head(s) = "m" /\ escaped
         THEN <<"m">> \o EscapeEnd(sh) \o wrap_seq(Tail(s), sh, FALSE)
    ELSE <<Head(s)>> \o wrap_seq(Tail(s), sh, escaped)

wrap_colorseq_for_shell(s, sh) ==
    IF sh \in WrappedShells THEN wrap_seq(s, sh, FALSE) ELSE s

\* ansi_strings.into_iter().map(|ansi| ANSIString::from(wrap(ansi.to_string())))
ansi_strings_modified(strs, sh) ==
    [i \in 1..Len(strs) |->
        ANSIString(wrap_colorseq_for_shell(to_string(strs[i]), sh), None)]

\* The match with an arm that wraps for every shell but Unknown.
shell_match_all_known(strs, sh) ==
    IF sh # "Unknown" THEN ansi_strings_modified(strs, sh) ELSE strs

\* match shell { Bash | Zsh | Tcsh => ansi_strings_modified(..), _ => ansi_strings }
shell_match(strs, sh) ==
    IF sh \in {"Bash", "Zsh", "Tcsh"} THEN ansi_strings_modified(strs, sh)
    ELSE strs

(***************************************************************************)
(* The module: its construction, population, queries and rendering.        *)
(***************************************************************************)
\* Module::new: no segments.
MInit ==
    /\ pc = "new"
    /\ segments = <<>>
    /\ via = "none"
    /\ shell = "Unknown"
    /\ width = None
    /\ iter = 1
    /\ ansi_strings = <<>>
    /\ result = <<>>
    /\ empty = None

\* Module::set_segments
set_segments ==
    /\ pc = "new"
    /\ \E segs \in SeqUpTo(SegmentValues, MaxSegs) : segments' = segs
    /\ pc' = "populated"
    /\ UNCHANGED <<via, shell, width, iter, ansi_strings, result, empty>>

\* A call of Module::is_empty on the populated module.
is_empty_call ==
    /\ pc = "populated"
    /\ empty' = Some(is_empty(segments))
    /\ pc' = "answered"
    /\ UNCHANGED <<segments, via, shell, width, iter, ansi_strings, result>>

\* The caller takes the answer of is_empty.
take_answer ==
    /\ pc = "answered"
    /\ empty' = None
    /\ pc' = "populated"
    /\ UNCHANGED <<segments, via, shell, width, iter, ansi_strings, result>>

\* The entry of ansi_strings_for_shell(shell, width): the peekable iterator
\* and the empty vector.
BeginRender(entry, sh, w) ==
    /\ pc = "populated"
    /\ via' = entry
    /\ shell' = sh
    /\ width' = w
    /\ iter' = 1
    /\ ansi_strings' = <<>>
    /\ result' = <<>>
    /\ pc' = "composing"
    /\ UNCHANGED <<segments, empty>>

ansi_strings_for_shell ==
    \E sh \in Shells, w \in {None} \cup {Some(n) : n \in 0..MaxWidth} :
        BeginRender("ansi_strings_for_shell", sh, w)

\* Module::ansi_strings: ansi_strings_for_shell(Shell::Unknown, None)
ansi_strings_default == BeginRender("ansi_strings", "Unknown", None)

\* while iter.peek().is_some() { ansi_strings.extend(ansi_line(&mut iter, width)) }
\* one iteration.
compose_line ==
    /\ pc = "composing"
    /\ iter <= Len(segments)
    /\ LET line == ansi_line(segments, iter, width)
       IN /\ ansi_strings' = ansi_strings \o line.out
          /\ iter' = line.next
    /\ UNCHANGED <<pc, segments, via, shell, width, result, empty>>

\* The loop's exit and the match on the shell.
finish_render ==
    /\ pc = "composing"
    /\ iter > Len(segments)
    /\ result' = shell_match(ansi_strings, shell)
    /\ pc' = "done"
    /\ UNCHANGED <<segments, via, shell, width, iter, ansi_strings, empty>>

\* The caller takes the strings; the module, immutable, can be rendered again.
take_result ==
    /\ pc = "done"
    /\ pc' = "populated"
    /\ via' = "none"
    /\ shell' = "Unknown"
    /\ width' = None
    /\ iter' = 1
    /\ ansi_strings' = <<>>
    /\ result' = <<>>
    /\ UNCHANGED <<segments, empty>>

(***************************************************************************)
(* The kubernetes detector (src/modules/kubernetes.rs).                    *)
(*                                                                         *)
(* A kubeconfig file is [ok, current, contexts]: ok is false when the file *)
(* cannot be read or holds no YAML document; current is the string at      *)
(* "current-context", if any; contexts is the vector at "contexts", if     *)
(* any, of entries [name, ns], the strings at "name" and at                *)
(* "context"."namespace", if any.                                          *)
(***************************************************************************)
FileIds == {"f1", "f2"}

\* <home>/.kube/config
DefaultConfigFile == "f1"

CtxNames == {<<"a", "b">>, <<"b">>}

Digit(i) == <<"0", "1", "2", "3", "4", "5", "6", "7", "8", "9">>[i + 1]

\* The namespaces of the model name the file and the entry they stand in.
NsOf(f, i) == IF f = "f1" THEN <<"n", "1", Digit(i)>> ELSE <<"n", "2", Digit(i)>>

UnreadableFile == [ok |-> FALSE, current |-> None, contexts |-> None]

\* The entries a file f can hold at position i.
EntriesAt(f, i) ==
    {[name |-> None, ns |-> None]}
    \cup {[name |-> Some(n), ns |-> ns] :
             n \in CtxNames, ns \in {None, Some(<<>>), Some(NsOf(f, i))}}

\* The vectors of k entries of file f.
EntryLists(f, k) ==
    {l \in [1..k -> UNION {EntriesAt(f, i) : i \in 1..k}] :
        \A i \in 1..k : l[i] \in EntriesAt(f, i)}

\* The contents of file f with k entries.
FileContents(f, k) ==
    {[ok |-> TRUE, current |-> c, contexts |-> Some(l)] :
        c \in {None, Some(<<>>)} \cup {Some(n) : n \in CtxNames},
        l \in EntryLists(f, k)}
    \cup (IF k = 0 THEN {UnreadableFile,
                         [ok |-> TRUE, current |-> Some(<<"a", "b">>),
                          contexts |-> None]}
          ELSE {})

\* The file systems of the model: at most MaxEntries entries in all.
BoundedFileSystems ==
    UNION {[f1 : FileContents("f1", k[1]), f2 : FileContents("f2", k[2])] :
              k \in {k \in (0..MaxEntries) \X (0..MaxEntries) :
                         k[1] + k[2] <= MaxEntries}}

\* The values of KUBECONFIG: unset, or a list of paths.
KubeConfigs ==
    {None, Some(<<"f2">>), Some(<<"f1", "f2">>), Some(<<"f2", "f1">>)}

\* get_kube_context on the file contents
get_kube_context(file) ==
    IF ~file.ok THEN None
    ELSE IF file.current = None THEN None
    ELSE IF file.current[1] = <<>> THEN None
    ELSE Some(file.current[1])

RECURSIVE find_name(_, _)
\* contexts.iter().filter_map(name as str).find(|name| name == current_ctx):
\* the first entry that has a name and whose name is current_ctx.
find_name(entries, current_ctx) ==
    IF entries = <<>> THEN None
    ELSE IF Head(entries).name # None /\ Head(entries).name[1] = current_ctx
         THEN Some(Head(entries))
    ELSE find_name(Tail(entries), current_ctx)

RECURSIVE find_name_with_ns(_, _)
\* The first entry named current_ctx among those that have a namespace.
find_name_with_ns(entries, current_ctx) ==
    IF entries = <<>> THEN None
    ELSE IF /\ Head(entries).name # None /\ Head(entries).name[1] = current_ctx
            /\ Head(entries).ns # None /\ Head(entries).ns[1] # <<>>
         THEN Some(Head(entries))
    ELSE find_name_with_ns(Tail(entries), current_ctx)

\* get_kube_ns on the file contents
get_kube_ns(file, current_ctx) ==
    IF ~file.ok THEN None
    ELSE IF file.contexts = None THEN None
    ELSE LET found == find_name(file.contexts[1], current_ctx)
         IN IF found = None THEN None
            ELSE IF found[1].ns = None THEN None
            ELSE IF found[1].ns[1] = <<>> THEN None
            ELSE Some(found[1].ns[1])

RECURSIVE find_map_context(_, _)
\* env::split_paths(&kube_cfg).find_map(get_kube_context)
find_map_context(paths, files) ==
    IF paths = <<>> THEN None
    ELSE LET got == get_kube_context(files[Head(paths)])
         IN IF got # None THEN got ELSE find_map_context(Tail(paths), files)

RECURSIVE find_map_ns_same_file(_, _, _)
\* The namespace looked up only in the file that supplied the context.
find_map_ns_same_file(paths, files, kube_ctx) ==
    IF paths = <<>> THEN None
    ELSE IF get_kube_context(files[Head(paths)]) # None
         THEN get_kube_ns(files[Head(paths)], kube_ctx)
    ELSE find_map_ns_same_file(Tail(paths), files, kube_ctx)

RECURSIVE find_map_ns(_, _, _)
\* env::split_paths(&kube_cfg).find_map(|filename| get_kube_ns(filename, kube_ctx))
find_map_ns(paths, files, kube_ctx) ==
    IF paths = <<>> THEN None
    ELSE LET got == get_kube_ns(files[Head(paths)], kube_ctx)
         IN IF got # None THEN got ELSE find_map_ns(Tail(paths), files, kube_ctx)

(***************************************************************************)
(* Context aliases.  A key is a sequence of atoms: a literal character,    *)
(* the any-text atom, the capture group of any text, or an opening bracket *)
(* of a character class that is never closed.  A replacement is a sequence *)
(* of literal characters and references to the capture group.              *)
(***************************************************************************)
AliasKeys ==
    { <<"a", "b">>, <<".*">>, <<"a", "(.*)">>, <<"a", "[">>, <<"b", ".*">> }

AliasValues == { <<"x">>, <<"y", "$1">> }

\* The alias tables with at most n keys.
AliasTables(n) ==
    UNION {[K -> AliasValues] : K \in {K \in SUBSET AliasKeys : Cardinality(K) <= n}}

\* The orders a HashMap's iter() may yield the keys of the table in.
IterOrders(aliases) ==
    {o \in [1..Cardinality(DOMAIN aliases) -> DOMAIN aliases] :
        \A i, j \in DOMAIN o : o[i] = o[j] => i = j}

\* Regex::new: an unclosed character class does not compile.
regex_compiles(key) == \A i \in 1..Len(key) : key[i] # "["

RECURSIVE regex_match(_, _)
\* The match of ^key$ on text, leftmost and greedy: [ok, cap], cap the text
\* of the capture group.
regex_match(key, text) ==
    IF key = <<>> THEN [ok |-> text = <<>>, cap |-> <<>>]
    ELSE IF Head(key) \in {".*", "(.*)"}
         THEN LET R == [k \in 0..Len(text) |->
                           regex_match(Tail(key), SubSeq(text, k + 1, Len(text)))]
                  K == {k \in 0..Len(text) : R[k].ok}
              IN IF K = {} THEN [ok |-> FALSE, cap |-> <<>>]
                 ELSE LET k == CHOOSE x \in K : \A y \in K : y <= x
                      IN [ok |-> TRUE,
                          cap |-> IF Head(key) = "(.*)" THEN SubSeq(text, 1, k)
                                  ELSE R[k].cap]
    ELSE IF text # <<>> /\ Head(text) = Head(key)
         THEN regex_match(Tail(key), Tail(text))
    ELSE [ok |-> FALSE, cap |-> <<>>]

RECURSIVE expand(_, _)
\* The replacement with $1 expanded to the capture.
expand(rep, cap) ==
    IF rep = <<>> THEN <<>>
    ELSE (IF Head(rep) = "$1" THEN cap ELSE <<Head(rep)>>) \o expand(Tail(rep), cap)

\* re.replace(kube_ctx, v): Some(replaced) for Cow::Owned, None for a text
\* left as it is.
regex_replace(key, text, rep) ==
    LET m == regex_match(key, text)
    IN IF m.ok THEN Some(expand(rep, m.cap)) ELSE None

RECURSIVE find_map_alias(_, _, _)
\* context_aliases.iter().find_map(|(k, v)| { Regex::new(..).ok()?; replace })
find_map_alias(aliases, order, kube_ctx) ==
    IF order = <<>> THEN None
    ELSE LET k == Head(order)
             got == IF regex_compiles(k)
                    THEN regex_replace(k, kube_ctx, aliases[k])
                    ELSE None
         IN IF got # None THEN got
            ELSE find_map_alias(aliases, Tail(order), kube_ctx)

\* get_kube_context_name without the lookup of the literal key.
get_kube_context_name_regex_only(aliases, order, kube_ctx) ==
    LET found == find_map_alias(aliases, order, kube_ctx)
    IN IF found # None THEN found[1] ELSE kube_ctx

get_kube_context_name(aliases, order, kube_ctx) ==
    IF kube_ctx \in DOMAIN aliases THEN aliases[kube_ctx]
    ELSE LET found == find_map_alias(aliases, order, kube_ctx)
         IN IF found # None THEN found[1] ELSE kube_ctx

(***************************************************************************)
(* The configuration and the format string.                                *)
(***************************************************************************)
\* The [kubernetes] tables of the model: disabled set or not, the default
\* format or one that does not parse, and aliases.
ModuleAliasTables == { <<>>, [k \in {<<"a", "(.*)">>} |-> <<"y", "$1">>] }

TomlConfigs ==
    [disabled : {None, Some(TRUE), Some(FALSE)},
     format : {"default", "malformed"},
     aliases : ModuleAliasTables]

\* KubernetesConfig::try_load: disabled defaults to true.
try_load(toml) ==
    [disabled |-> IF toml.disabled = None THEN TRUE ELSE toml.disabled[1],
     format |-> toml.format,
     aliases |-> toml.aliases]

Text(v) == Styled(v, Some("cyan bold"))

\* StringFormatter::new(format).and_then(.. parse): Err for the malformed
\* format; for the default format "[$symbol$context( \($namespace\))]($style) in "
\* the symbol, the context, the group of the namespace when there is one,
\* and " in ".
format_parse(format, context, namespace) ==
    IF format = "malformed" THEN [ok |-> FALSE, segments |-> <<>>]
    ELSE [ok |-> TRUE,
          segments |->
              <<Text(<<"*", " ">>), Text(context)>>
              \o (IF namespace = None THEN <<>>
                  ELSE <<Text(<<" ", "(">>), Text(namespace[1]), Text(<<")">>)>>)
              \o <<Styled(<<" ", "i", "n", " ">>, None)>>]

ReturnNone == [tag |-> "None", segments |-> <<>>, name |-> <<>>]

ReturnSome(segs) == [tag |-> "Some", segments |-> segs, name |-> <<>>]

\* module() with the files read: from the two find_map to the return.
module_from_files(config, order, paths, files) ==
    LET kube_ctx == find_map_context(paths, files)
    IN IF kube_ctx = None THEN ReturnNone
       ELSE LET kube_ns == find_map_ns(paths, files, kube_ctx[1])
                parsed == format_parse(
                              config.format,
                              get_kube_context_name(config.aliases, order, kube_ctx[1]),
                              kube_ns)
            IN IF parsed.ok THEN ReturnSome(parsed.segments) ELSE ReturnNone

\* The path list: KUBECONFIG, or the default file when it is not set.
kube_cfg(kubeconfig) ==
    IF kubeconfig = None THEN <<DefaultConfigFile>> ELSE kubeconfig[1]

\* context.get_home(): no home directory, one whose path is not UTF-8, or one
\* whose path is.
Homes == {"none", "not_utf8", "utf8"}

\* The early returns without the test of config.disabled.
early_return_home_only(config, home) == home # "utf8"

\* if config.disabled { return None }; context.get_home()?; and
\* default_config_file.to_str()?, evaluated whether KUBECONFIG is set or not.
early_return(config, home) == config.disabled \/ home = "none" \/ home = "not_utf8"

NoCall ==
    [call |-> "none", toml |-> [disabled |-> None, format |-> "default", aliases |-> <<>>],
     home |-> "utf8", kubeconfig |-> None, files |-> None, ctx |-> <<>>]

\* module(context): the configuration, the home directory and KUBECONFIG are
\* those of the context; the files are read only past the two early returns.
module ==
    /\ kpc = "idle"
    /\ \E toml \in TomlConfigs, home \in Homes, kubeconfig \in KubeConfigs :
          LET config == try_load(toml)
              env == [NoCall EXCEPT !.call = "module", !.toml = toml,
                                    !.home = home, !.kubeconfig = kubeconfig]
          IN IF early_return(config, home)
             THEN /\ kenv' = env
                  /\ kret' = ReturnNone
             ELSE \E files \in BoundedFileSystems, order \in IterOrders(config.aliases) :
                     /\ kenv' = [env EXCEPT !.files = Some(files)]
                     /\ kret' = module_from_files(config, order,
                                                  kube_cfg(kubeconfig), files)
    /\ kpc' = "returned"

\* A call of get_kube_context_name(config, kube_ctx).
context_name_call ==
    /\ kpc = "idle"
    /\ \E aliases \in AliasTables(MaxAliases),
          kube_ctx \in SeqUpTo({"a", "b"}, MaxCtxLen) :
          \E order \in IterOrders(aliases) :
             /\ kenv' = [NoCall EXCEPT !.call = "get_kube_context_name",
                                       !.toml.aliases = aliases,
                                       !.ctx = kube_ctx]
             /\ kret' = [tag |-> "Name", segments |-> <<>>,
                         name |-> get_kube_context_name(aliases, order, kube_ctx)]
    /\ kpc' = "named"

\* The caller takes what the call returned.
kube_return ==
    /\ kpc \in {"returned", "named"}
    /\ kpc' = "idle"
    /\ kenv' = NoCall
    /\ kret' = ReturnNone

KIdle ==
    /\ kpc = "idle"
    /\ kenv = NoCall
    /\ kret = ReturnNone

Init == MInit /\ KIdle

NextModule ==
    \/ set_segments /\ UNCHANGED kvars
    \/ is_empty_call /\ UNCHANGED kvars
    \/ take_answer /\ UNCHANGED kvars
    \/ ansi_strings_for_shell /\ UNCHANGED kvars
    \/ ansi_strings_default /\ UNCHANGED kvars
    \/ compose_line /\ UNCHANGED kvars
    \/ finish_render /\ UNCHANGED kvars
    \/ take_result /\ UNCHANGED kvars

SpecModule == Init /\ [][NextModule]_vars

NextKube ==
    \/ module /\ UNCHANGED mvars
    \/ context_name_call /\ UNCHANGED mvars
    \/ kube_return /\ UNCHANGED mvars

SpecKube == Init /\ [][NextKube]_vars

(***************************************************************************)
(* What the properties below speak of: the line a position lies on, its    *)
(* used width and its number of fills, counted on the segments themselves. *)
(***************************************************************************)
IsLineTerm(i) == segments[i].kind = "LineTerm"

IsFill(i) == segments[i].kind = "Fill"

\* The first position of the line that holds position i.
LineFirst(i) ==
    CHOOSE a \in 1..i :
        /\ a = 1 \/ IsLineTerm(a - 1)
        /\ \A k \in a..(i - 1) : ~IsLineTerm(k)

\* The last position of the line that holds position i.
LineLast(i) ==
    CHOOSE b \in i..Len(segments) :
        /\ b = Len(segments) \/ IsLineTerm(b)
        /\ \A k \in i..(b - 1) : ~IsLineTerm(k)

RECURSIVE WidthSum(_, _)
\* The display widths of the non-Fill segments at positions a..b, added up.
WidthSum(a, b) ==
    IF a > b THEN 0
    ELSE (IF IsFill(a) THEN 0 ELSE width_graphemes(segments[a]))
         + WidthSum(a + 1, b)

UsedOf(i) == WidthSum(LineFirst(i), LineLast(i))

FillsOf(i) == {k \in LineFirst(i)..LineLast(i) : IsFill(k)}

RECURSIVE TextSum(_, _)
\* The lengths of the texts of strs at the positions of S, added up.
TextSum(strs, S) ==
    IF S = {} THEN 0
    ELSE LET k == CHOOSE x \in S : TRUE
         IN Len(strs[k].text) + TextSum(strs, S \ {k})

\* The positions whose line the composer has finished.
Composed == {i \in 1..Len(segments) : pc \in {"composing", "done"} /\ i < iter}

\* Line i has room: a width is given and exceeds the used width of the line.
HasRoom(i) == width # None /\ width[1] > UsedOf(i)

\* C1: in a line with n >= 1 fills and a width W > used, every fill is
\* floor((W - used) / n) copies of its symbol, the fills together are
\* n * floor((W - used) / n) characters, and no fill gets the remainder.
C1_FillShare ==
    \A i \in Composed :
        (IsFill(i) /\ HasRoom(i)) =>
            LET n == Cardinality(FillsOf(i))
                share == (width[1] - UsedOf(i)) \div n
            IN /\ i <= Len(ansi_strings)
               /\ ansi_strings[i].text = Repeat(segments[i].value, share)
               /\ \A k \in FillsOf(i) :
                      Len(ansi_strings[k].text) = Len(ansi_strings[i].text)
               /\ TextSum(ansi_strings, FillsOf(i)) = n * share
               /\ TextSum(ansi_strings, FillsOf(i)) + ((width[1] - UsedOf(i)) % n)
                      = width[1] - UsedOf(i)

\* A finished line of three fills whose room, 4 or 5 columns, does not divide
\* by three.
C1_Witness ==
    /\ pc = "done"
    /\ \E i \in Composed :
          /\ IsFill(i) /\ HasRoom(i)
          /\ Cardinality(FillsOf(i)) = 3
          /\ (width[1] - UsedOf(i)) % 3 # 0
          /\ width[1] - UsedOf(i) > 3

\* C2: when no width is given (as in the default render, which passes
\* Shell::Unknown and no width) or the width does not exceed the used width,
\* every fill of the line is empty and every other segment of the line is
\* output in full.
C2_NoRoom ==
    /\ (pc \in {"composing", "done"} /\ via = "ansi_strings") =>
            (shell = "Unknown" /\ width = None)
    /\ \A i \in Composed :
        (FillsOf(i) # {} /\ ~HasRoom(i)) =>
            /\ i <= Len(ansi_strings)
            /\ IsFill(i) => ansi_strings[i].text = <<>>
            /\ ~IsFill(i) => ansi_strings[i] = ansi_string(segments[i])

\* A finished line with a fill and a text wider than the width given.
C2_Witness ==
    /\ pc = "done"
    /\ \E i \in Composed :
          /\ IsFill(i)
          /\ width # None /\ width[1] < UsedOf(i)
          /\ ansi_strings[i].text = <<>>

\* The string the i-th segment is rendered as by the composer, for some
\* resolved width of a fill.
RendersAs(str, segment) ==
    IF segment.kind = "Fill"
    THEN \E k \in 0..MaxWidth : str = fill_ansi_string(segment, Some(k))
    ELSE str = ansi_string(segment)

C4_IsEmpty ==
    empty # None =>
        /\ empty[1] = (\A i \in 1..Len(segments) : value(segments[i]) = <<>>)
        /\ segments = <<>> => empty[1]
        /\ segments = <<Styled(<<" ">>, None)>> => ~empty[1]
        /\ segments = <<LineTerm>> => ~empty[1]

\* is_empty answered false for a module of one space or one LineTerm.
C4_Witness ==
    /\ empty = Some(FALSE)
    /\ Len(segments) = 1
    /\ segments[1] \in {LineTerm, Styled(<<" ">>, None)}

\* C5: the wrapper is applied for Bash, Zsh and Tcsh only; for any other
\* shell the result is the composer's output, element for element.
C5_OtherShells ==
    pc = "done" =>
        /\ shell \notin {"Bash", "Zsh", "Tcsh"} => result = ansi_strings
        /\ shell \in {"Bash", "Zsh", "Tcsh"} =>
              result = ansi_strings_modified(ansi_strings, shell)

\* A styled string rendered for Fish.
C5_Witness ==
    /\ pc = "done"
    /\ shell = "Fish"
    /\ \E i \in 1..Len(result) : result[i].style # None /\ result[i].text # <<>>

\* The prefix of s that is p.
StartsWith(s, p) == Len(s) >= Len(p) /\ SubSeq(s, 1, Len(p)) = p

Drop(s, n) == SubSeq(s, n + 1, Len(s))

RECURSIVE StripMarkers(_, _, _)
\* s without the shell's markers: the begin marker in front of the ESC that
\* opens an escape code and the end marker behind the 'm' that closes it.
StripMarkers(s, sh, escaped) ==
    IF s = <<>> THEN <<>>
    ELSE IF ~escaped /\ StartsWith(s, EscapeBegin(sh) \o <<ESC>>)
         THEN <<ESC>> \o StripMarkers(Drop(s, Len(EscapeBegin(sh)) + 1), sh, TRUE)
    ELSE IF escaped /\ StartsWith(s, <<"m">> \o EscapeEnd(sh))
         THEN <<"m">> \o StripMarkers(Drop(s, Len(EscapeEnd(sh)) + 1), sh, FALSE)
    ELSE <<Head(s)>> \o StripMarkers(Tail(s), sh, escaped)

\* C6: for Bash, Zsh and Tcsh the wrapped strings are as many as the
\* unwrapped ones, in their order, and each without the shell's markers is
\* the unwrapped string: text and escape codes are unchanged.
C6_StripWrapped ==
    (pc = "done" /\ shell \in WrappedShells) =>
        /\ Len(result) = Len(ansi_strings)
        /\ \A i \in 1..Len(result) :
              StripMarkers(to_string(result[i]), shell, FALSE)
                  = to_string(ansi_strings[i])

\* A styled text with an 'm' of its own, wrapped for Zsh: markers were added.
C6_Witness ==
    /\ pc = "done"
    /\ shell = "Zsh"
    /\ \E i \in 1..Len(result) :
          /\ ansi_strings[i].style # None
          /\ "m" \in {ansi_strings[i].text[k] : k \in 1..Len(ansi_strings[i].text)}
          /\ Len(to_string(result[i])) = Len(to_string(ansi_strings[i])) + 8

\* The width of the fills of a line of used width u and n fills.
LineShare(u, n) ==
    IF width # None /\ width[1] > u THEN (width[1] - u) \div n ELSE 0

\* One invocation of the composer: it consumes at least one segment, stops
\* right after the first LineTerm, keeps what was composed before, and sizes
\* the fills of its line by the width and that line's segments alone.
C9_Invocation ==
    (pc = "composing" /\ iter' # iter) =>
        /\ iter' > iter
        /\ iter' <= Len(segments) + 1
        /\ \A k \in iter..(iter' - 2) : ~IsLineTerm(k)
        /\ iter' <= Len(segments) => IsLineTerm(iter' - 1)
        /\ Len(ansi_strings') = iter' - 1
        /\ SubSeq(ansi_strings', 1, iter - 1) = ansi_strings
        /\ \A k \in iter..(iter' - 1) :
              IsFill(k) =>
                  Len(ansi_strings'[k].text) =
                      LineShare(WidthSum(iter, iter' - 1),
                                Cardinality({j \in iter..(iter' - 1) : IsFill(j)}))

\* The render ends only when every segment has been consumed, with one string
\* composed for each.
C9_EndsWhenConsumed ==
    (pc = "composing" /\ pc' = "done") =>
        /\ iter = Len(segments) + 1
        /\ Len(ansi_strings) = Len(segments)
        /\ UNCHANGED <<iter, ansi_strings, segments>>

MatchingKeys(aliases, kube_ctx) ==
    {k \in DOMAIN aliases : regex_compiles(k) /\ regex_match(k, kube_ctx).ok}

\* C7: get_kube_context_name returns the alias of the literal key if the
\* context name is a key, whatever regex matches as well; otherwise the
\* replacement of a key that compiles and matches, the capture substituted;
\* a key that does not compile is passed over; with no alias that applies,
\* the context name itself.
C7_ContextName ==
    kpc = "named" =>
        LET aliases == kenv.toml.aliases
            kube_ctx == kenv.ctx
        IN /\ kret.tag = "Name"
           /\ IF kube_ctx \in DOMAIN aliases
              THEN kret.name = aliases[kube_ctx]
              ELSE IF MatchingKeys(aliases, kube_ctx) # {}
              THEN \E k \in MatchingKeys(aliases, kube_ctx) :
                      kret.name = expand(aliases[k], regex_match(k, kube_ctx).cap)
              ELSE kret.name = kube_ctx
           \* a literal key and a regex that matches as well: the literal key's alias
           /\ (DOMAIN aliases = {<<"a", "b">>, <<".*">>} /\ kube_ctx = <<"a", "b">>) =>
                  kret.name = aliases[<<"a", "b">>]
           \* only a key that does not compile: the context name
           /\ DOMAIN aliases = {<<"a", "[">>} => kret.name = kube_ctx

\* A table with a key that does not compile and a key with a capture group:
\* the name is the replacement with the capture substituted.
C7_Witness ==
    /\ kpc = "named"
    /\ DOMAIN kenv.toml.aliases = {<<"a", "[">>, <<"a", "(.*)">>}
    /\ kenv.toml.aliases[<<"a", "(.*)">>] = <<"y", "$1">>
    /\ kenv.ctx = <<"a", "b">>
    /\ kret.name = <<"y", "b">>

\* The file has a non-empty current-context.
HasContext(file) ==
    file.ok /\ file.current # None /\ file.current[1] # <<>>

\* The paths of the call and the files it read.
CallPaths == kube_cfg(kenv.kubeconfig)

CallFiles == kenv.files[1]

\* The positions of the path list whose file has a non-empty current-context.
ContextFiles == {i \in 1..Len(CallPaths) : HasContext(CallFiles[CallPaths[i]])}

\* The context of the call: the current-context of the first file of the
\* path list that has one.
CallContext ==
    LET i == CHOOSE x \in ContextFiles : \A y \in ContextFiles : x <= y
    IN CallFiles[CallPaths[i]].current[1]

\* The namespaces of the entries of the files the call read.
CallNamespaces ==
    UNION {IF CallFiles[f].contexts = None THEN {}
           ELSE {CallFiles[f].contexts[1][j].ns :
                    j \in 1..Len(CallFiles[f].contexts[1])} \ {None}
           : f \in FileIds}

\* C8: module() returns None when the configuration is disabled (as it is
\* unless it sets disabled = false), when there is no home directory, when
\* no file of the path list has a non-empty current-context and when the
\* format does not parse; it returns Some only with the parsed segments set,
\* and returns nothing else.
C8_OmitOnFailure ==
    kpc = "returned" =>
        /\ kret.tag \in {"None", "Some"}
        /\ kenv.toml.disabled # Some(FALSE) => kret = ReturnNone
        /\ kenv.home # "utf8" => kret = ReturnNone
        /\ (kenv.files # None /\ ContextFiles = {}) => kret = ReturnNone
        /\ kenv.toml.format = "malformed" => kret = ReturnNone
        /\ kret.tag = "Some" =>
              /\ kenv.toml.disabled = Some(FALSE)
              /\ kenv.home = "utf8"
              /\ kenv.files # None /\ ContextFiles # {}
              /\ \E name \in {CallContext, <<"y">> \o Tail(CallContext)},
                    ns \in {None} \cup CallNamespaces :
                    LET parsed == format_parse(kenv.toml.format, name, ns)
                    IN parsed.ok /\ kret.segments = parsed.segments
        /\ kret.tag = "None" => kret.segments = <<>>

\* A call with the configuration not disabled and a home directory, that read
\* files with a context, and returned None for the format.
C8_Witness ==
    /\ kpc = "returned"
    /\ kenv.toml.disabled = Some(FALSE)
    /\ kenv.home = "utf8"
    /\ kenv.files # None /\ ContextFiles # {}
    /\ kenv.toml.format = "malformed"
    /\ kret = ReturnNone

\* The entries of the file named ctx with a non-empty namespace.
NamedWithNs(file, ctx) ==
    IF ~file.ok \/ file.contexts = None THEN {}
    ELSE {j \in 1..Len(file.contexts[1]) :
             LET e == file.contexts[1][j]
             IN e.name = Some(ctx) /\ e.ns # None /\ e.ns[1] # <<>>}

\* The entries of the file named ctx.
Named(file, ctx) ==
    IF ~file.ok \/ file.contexts = None THEN {}
    ELSE {j \in 1..Len(file.contexts[1]) : file.contexts[1][j].name = Some(ctx)}

Least(S) == CHOOSE x \in S : \A y \in S : x <= y

\* The namespace of the first file of the path list that has an entry named
\* ctx with a non-empty namespace: that of the first such entry.
NsOfAnyEntry(ctx) ==
    LET I == {i \in 1..Len(CallPaths) : NamedWithNs(CallFiles[CallPaths[i]], ctx) # {}}
    IN IF I = {} THEN None
       ELSE LET file == CallFiles[CallPaths[Least(I)]]
            IN Some(file.contexts[1][Least(NamedWithNs(file, ctx))].ns[1])

\* The namespace of the first file of the path list whose first entry named
\* ctx has a non-empty namespace.
NsOfFirstEntry(ctx) ==
    LET I == {i \in 1..Len(CallPaths) :
                 LET file == CallFiles[CallPaths[i]]
                 IN /\ Named(file, ctx) # {}
                    /\ Least(Named(file, ctx)) \in NamedWithNs(file, ctx)}
    IN IF I = {} THEN None
       ELSE LET file == CallFiles[CallPaths[Least(I)]]
            IN Some(file.contexts[1][Least(Named(file, ctx))].ns[1])

\* The segments of the default format for the context and the namespace.
Rendered(ctx, ns) ==
    <<Text(<<"*", " ">>),
      Text(IF kenv.toml.aliases # <<>> /\ Head(ctx) = "a"
           THEN <<"y">> \o Tail(ctx) ELSE ctx)>>
    \o (IF ns = None THEN <<>>
        ELSE <<Text(<<" ", "(">>), Text(ns[1]), Text(<<")">>)>>)
    \o <<Styled(<<" ", "i", "n", " ">>, None)>>

\* The call reached the files and the format parses.
Detects ==
    /\ kpc = "returned"
    /\ kenv.toml.disabled = Some(FALSE) /\ kenv.home = "utf8"
    /\ kenv.toml.format = "default"
    /\ kenv.files # None /\ ContextFiles # {}

\* File cc holds a current-context and no entry, file ctx the entry of that
\* context with a namespace and no current-context.
SplitFiles(cc, ctx) ==
    /\ kenv.files # None
    /\ HasContext(CallFiles[cc]) /\ CallFiles[cc].contexts = Some(<<>>)
    /\ CallFiles[ctx].ok /\ CallFiles[ctx].current = None
    /\ CallFiles[ctx].contexts # None /\ Len(CallFiles[ctx].contexts[1]) = 1
    /\ CallFiles[ctx].contexts[1][1].name = CallFiles[cc].current
    /\ CallFiles[ctx].contexts[1][1].ns \notin {None, Some(<<>>)}

\* C10 as stated: the namespace is that of the first file with any entry of
\* the context's name that has a non-empty namespace.
C10_AnyNamedEntry ==
    Detects => kret = ReturnSome(Rendered(CallContext, NsOfAnyEntry(CallContext)))

\* C10, amended: the context is that of the first file of the path list with
\* a non-empty current-context; the namespace is that of the first file of
\* the path list whose first entry named as the context has a non-empty
\* namespace, whichever file supplied the context; two files that split the
\* current-context and the entry render the same in both orders, and without
\* a namespace the module is returned with the context alone.
C10_FirstNamedEntry ==
    Detects =>
        /\ kret = ReturnSome(Rendered(CallContext, NsOfFirstEntry(CallContext)))
        /\ \A cc, ctx \in FileIds :
              (Len(CallPaths) = 2 /\ SplitFiles(cc, ctx)) =>
                  kret = ReturnSome(Rendered(CallFiles[cc].current[1],
                                             CallFiles[ctx].contexts[1][1].ns))

\* The entry of the context stands in the first file of the path list, the
\* current-context in the second.
C10_Witness ==
    /\ Detects
    /\ kenv.kubeconfig = Some(<<"f2", "f1">>)
    /\ SplitFiles("f1", "f2")
    /\ kret.tag = "Some"
    /\ Len(kret.segments) = 6
    /\ kret.segments[4].value = NsOf("f2", 1)

RECURSIVE VisibleLen(_)
\* The columns a text takes on the terminal: a line break takes none.
VisibleLen(text) ==
    IF text = <<>> THEN 0
    ELSE (IF Head(text) = "\n" THEN 0 ELSE 1) + VisibleLen(Tail(text))

RECURSIVE LineWidth(_, _)
\* The visible width of the composed strings at positions a..b.
LineWidth(a, b) ==
    IF a > b THEN 0
    ELSE VisibleLen(ansi_strings[a].text) + LineWidth(a + 1, b)

\* The locals of ansi_line at the end of its loop on the line that holds
\* position i.
LineLocals(i) == line_loop(segments, LineStart(LineFirst(i)))

\* C11: in a composed line with n >= 1 fills and a width W > used, the visible
\* width of the line, used plus the resolved fills, is at most W and at least
\* W - (n - 1), and is W exactly when n divides W - used.  The subtraction
\* W - used is taken only when W > used, so that a size is resolved only from
\* a positive remainder and no fill grows from a wrapped difference, and the
\* divisor, the number of chunks, is at least 1 in every line that resolves a
\* size.
C11_WidthBound ==
    \A i \in Composed :
        (i = LineFirst(i) /\ FillsOf(i) # {}) =>
            LET st == LineLocals(i)
                n == Len(st.chunks)
                size == fill_size(width, st.used, n)
                fills == TextSum(ansi_strings, FillsOf(i))
                total == LineWidth(LineFirst(i), LineLast(i))
            IN /\ LineLast(i) <= Len(ansi_strings)
               /\ n >= 1
               /\ n = Cardinality(FillsOf(i))
               /\ st.used = UsedOf(i)
               /\ total = st.used + fills
               /\ size # None <=> HasRoom(i)
               /\ ~HasRoom(i) => fills = 0
               /\ HasRoom(i) =>
                     /\ width[1] - st.used >= 1
                     /\ size = Some((width[1] - st.used) \div n)
                     /\ fills = n * size[1]
                     /\ total <= width[1]
                     /\ total >= width[1] - (n - 1)
                     /\ (total = width[1]) <=> ((width[1] - st.used) % n = 0)

\* A finished render of two lines at one width: a line of one fill, whose
\* width is the width given, and a line of two fills whose remainder is odd,
\* which falls short of the width by n - 1 = 1.
C11_Witness ==
    /\ pc = "done"
    /\ \E i, j \in Composed :
          /\ HasRoom(i) /\ HasRoom(j)
          /\ Cardinality(FillsOf(i)) = 1
          /\ LineWidth(LineFirst(i), LineLast(i)) = width[1]
          /\ Cardinality(FillsOf(j)) = 2
          /\ (width[1] - UsedOf(j)) % 2 = 1
          /\ LineWidth(LineFirst(j), LineLast(j)) = width[1] - 1

====
